---- MODULE Spec2Model ----
(***************************************************************************)
(* A model of kobra's "egg" decorator library (src/egg/decorating.py,      *)
(* src/egg/modifiers.py): traceable decorators, @final, @partially_final,  *)
(* @singleton and freeze, over a small heap of Python objects.             *)
(*                                                                         *)
(* The heap is a sequence of object records; an object's identity is its   *)
(* index.  0 stands for None.  __decorators__ lists are heap objects of    *)
(* their own (the sequence `lists`), because the code shares one list      *)
(* between an object and whatever inherits the attribute from it.          *)
(***************************************************************************)
EXTENDS Integers, Sequences, FiniteSets, TLC

VARIABLES
    heap,      \* Seq of object records: the live Python objects
    lists,     \* Seq of Seq of decorator identities: the __decorators__ list objects
    applied,   \* history: applied[o] = decorators whose application produced o
    cap,       \* the run's limits: objs, the most objects; entries, the most list entries
    meta_path,    \* sys.meta_path: the finders, first asked first
    parent_dict,  \* a JsonIOSupporter's __dict__: field name -> value
    fields        \* its dumper's _fields: field name -> what the JSON file stores

vars == <<heap, lists, applied, cap, meta_path, parent_dict, fields>>

\* What a run of the decorator library leaves alone
elsewhere == <<meta_path, parent_dict, fields>>

\* ------------------------------------------------------------------ bounds
MaxNew == 1        \* objects created on top of the scope, decorators of every kind
MaxClasses == 3    \* classes created on top of the scope, class modifiers
MaxFinders == 4    \* interface finders added to sys.meta_path
MaxInt == 11       \* int field values range over -MaxInt..MaxInt

\* ------------------------------------------------------------ the objects
NoneId == 0

\* A module-level decorator is identified by its name, a configured
\* _ConfigurableDecorator by the heap object it is.
Dec(name) == <<name, 0>>
CfgDec(name, id) == <<name, id>>

NoPairs == {}

Obj(kind) ==
    [kind |-> kind,        \* "function" "builtin" "class" "instance" "confdec" "value" "property"
     cls |-> 0,            \* instance: its class
     mro |-> <<>>,         \* class: its __mro__ (itself first, object left out)
     dict |-> NoPairs,     \* class: the members of its body, <<name, function or property>>
     hook |-> "none",      \* class: the __init_subclass__ its body defines
     hasFinals |-> FALSE,  \* class: its body defines __final_methods__
     finals |-> NoPairs,   \* class: that __final_methods__
     meta |-> 0,           \* class: 0 for metaclass type, else the Singleton its SingletonMeta was made with
     cls_ |-> 0,           \* Singleton class: the decorated cls_, which its SingletonMeta derives from
     new |-> "object",     \* class: "raise" when its body defines Singleton.__new__
     slots |-> FALSE,      \* class: its body declares __slots__ without '__decorators__'
     decl |-> 0,           \* the object's own __decorators__ attribute (a list), 0 when absent
     cfg |-> "none",       \* confdec: "none", "kw" (keyword arguments) or "obj" (one positional argument)
     pytype |-> "",        \* value, property: its type
     frozen |-> FALSE,     \* instance: __frozen__
     shadow |-> NoPairs]   \* instance: its own attributes, <<name, object or Frozen>>

Ids(h) == 1..Len(h)
IsClass(h, o) == o \in Ids(h) /\ h[o].kind = "class"
Classes(h) == {o \in Ids(h) : h[o].kind = "class"}
Functions(h) == {o \in Ids(h) : h[o].kind = "function"}

InSeq(x, s) == \E i \in 1..Len(s) : s[i] = x
SeqSet(s) == {s[i] : i \in 1..Len(s)}
Min(S) == CHOOSE x \in S : \A y \in S : x <= y

\* Body(x) for a value x computed once.
With(x, Body(_)) == Body(x)

\* The first class of the sequence seq satisfying P, 0 when none does.
FirstWith(seq, P(_)) ==
    LET idx == {i \in 1..Len(seq) : P(seq[i])}
    IN IF idx = {} THEN 0 ELSE seq[Min(idx)]

\* ------------------------------------------------------ attribute lookup
\* The classes searched for an attribute of o, in order: a class searches its
\* __mro__ then its metaclass's, an instance the __mro__ of its class.
SearchPath(h, o) ==
    CASE h[o].kind = "class" ->
            h[o].mro \o (IF h[o].meta # 0 THEN h[h[h[o].meta].cls_].mro ELSE <<>>)
      [] h[o].kind = "instance" -> h[h[o].cls].mro
      [] OTHER -> <<>>

\* getattr(o, "__decorators__", absent): the list found, 0 when hasattr is False.
LookupDecl(h, o) ==
    IF o = NoneId THEN 0
    ELSE IF h[o].kind # "class" /\ h[o].decl # 0 THEN h[o].decl
    ELSE LET c == FirstWith(SearchPath(h, o), LAMBDA k : h[k].decl # 0)
         IN IF c = 0 THEN 0 ELSE h[c].decl

\* The function a method name resolves to through the classes of path, 0 when none.
LookupMethod(h, path, name) ==
    LET c == FirstWith(path, LAMBDA k : \E p \in h[k].dict : p[1] = name)
    IN IF c = 0 THEN 0 ELSE (CHOOSE p \in h[c].dict : p[1] = name)[2]

\* Whether `o.__decorators__ = x` succeeds: functions and classes take attributes
\* (a class does even when it declares __slots__: the slots bind its instances),
\* an instance does unless every class of its __mro__ declares __slots__;
\* None, builtins and builtin values do not.
Settable(h, o) ==
    /\ o # NoneId
    /\ \/ h[o].kind \in {"function", "class", "confdec"}
       \/ h[o].kind = "instance" /\ \E c \in SeqSet(h[h[o].cls].mro) : ~h[c].slots

\* callable(o) or isinstance(o, type)
Callable(h, o) ==
    /\ o # NoneId
    /\ \/ h[o].kind \in {"function", "builtin", "class", "confdec"}
       \/ h[o].kind = "instance" /\ LookupMethod(h, SearchPath(h, o), "__call__") # 0

\* ------------------------------------------------------- decorating.py
\* has_decorator(obj, decorator_)
has_decorator(h, l, o, d) ==
    LookupDecl(h, o) # 0 /\ InSeq(d, l[LookupDecl(h, o)])

\* decorators_of(obj): the list, after storing it on obj; res = 0 for None.
decorators_of(h, l, o) ==
    LET found == LookupDecl(h, o)
        lid == IF found # 0 THEN found ELSE Len(l) + 1
    IN IF Settable(h, o)
       THEN [h |-> [h EXCEPT ![o].decl = lid],
             l |-> IF found # 0 THEN l ELSE Append(l, <<>>),
             res |-> lid]
       ELSE [h |-> h, l |-> l, res |-> 0]

Raise(exc, h, l) == [h |-> h, l |-> l, exc |-> exc, ret |-> NoneId]
Return(ret, h, l) == [h |-> h, l |-> l, exc |-> "", ret |-> ret]

\* ------------------------------------------------- Python class creation
\* The C3 merge of type.__new__'s mro(): the first head that is in no tail, then
\* the rest.  An inconsistent hierarchy yields a sequence holding 0.
RECURSIVE C3Merge(_)
C3Merge(seqs) ==
    LET ne == SelectSeq(seqs, LAMBDA s : Len(s) > 0)
        good == {i \in 1..Len(ne) : \A j \in 1..Len(ne) : ~InSeq(Head(ne[i]), Tail(ne[j]))}
    IN IF Len(ne) = 0 THEN <<>>
       ELSE IF good = {} THEN <<0>>
       ELSE LET hd == Head(ne[Min(good)])
            IN <<hd>> \o C3Merge([k \in 1..Len(ne) |->
                                    IF Head(ne[k]) = hd THEN Tail(ne[k]) ELSE ne[k]])

\* Final.__init_subclass__
FinalInitSubclass == "TypeError"

\* Singleton.__init_subclass__
SingletonInitSubclass == "ValueError"

\* InheritanceSupport.__init_subclass__(cls): cls.__final_methods__ is the first
\* one found along cls's __mro__, cls's own body first.
InheritanceSupportInitSubclass(h, lin, body) ==
    LET fm == IF body.hasFinals THEN body.finals
              ELSE h[FirstWith(lin, LAMBDA c : h[c].hasFinals)].finals
    IN IF \E p \in body.dict : \E q \in fm : q[1] = p[1] /\ q[2] # p[2]
       THEN "TypeError" ELSE ""

\* type.__new__'s super().__init_subclass__(): the hook of the first class after
\* the new one in its __mro__ that defines one; no hook of this library chains on.
InitSubclass(h, lin, body) ==
    LET owner == FirstWith(lin, LAMBDA c : h[c].hook # "none")
    IN IF owner = 0 THEN ""
       ELSE CASE h[owner].hook = "final" -> FinalInitSubclass
              [] h[owner].hook = "singleton" -> SingletonInitSubclass
              [] OTHER -> InheritanceSupportInitSubclass(h, lin, body)

Body == [dict |-> NoPairs, hook |-> "none", hasFinals |-> FALSE, finals |-> NoPairs,
         cls_ |-> 0, new |-> "object", slots |-> FALSE]

\* The class of b's __mro__ that fixes the layout of its instances: the first one
\* with __slots__ of its own, 0 for a plain object layout.
SolidBase(h, b) == FirstWith(h[b].mro, LAMBDA k : h[k].slots)

\* "multiple bases have instance lay-out conflict": two bases whose layouts are
\* fixed by different classes, neither deriving from the other.
LayoutConflict(h, bases) ==
    \E a, b \in SeqSet(bases) :
        /\ SolidBase(h, a) # 0 /\ SolidBase(h, b) # 0
        /\ ~InSeq(SolidBase(h, a), h[SolidBase(h, b)].mro)
        /\ ~InSeq(SolidBase(h, b), h[SolidBase(h, a)].mro)

\* type.mro(): the __mro__ a class with these bases gets, itself left out
Lin(h, bases) == C3Merge([i \in 1..Len(bases) |-> h[bases[i]].mro] \o <<bases>>)

\* A class statement `class X(*bases): body` (body.cls_ # 0: with
\* metaclass=SingletonMeta): every base a class, one metaclass (the
\* SingletonMetas of two singletons conflict), no layout conflict, a consistent
\* __mro__, then __init_subclass__; the class exists only when none of these raises.
ClassStmt(h, l, bases, body) ==
    IF \E b \in SeqSet(bases) : ~IsClass(h, b) THEN Raise("TypeError", h, l)
    ELSE
    With(Lin(h, bases), LAMBDA lin :
    With(({h[b].meta : b \in SeqSet(bases)} \ {0})
            \cup (IF body.cls_ # 0 THEN {Len(h) + 1} ELSE {}), LAMBDA metas :
    With(IF Cardinality(metas) > 1 THEN "TypeError"
         ELSE IF LayoutConflict(h, bases) THEN "TypeError"
         ELSE IF InSeq(0, lin) THEN "TypeError"
         ELSE InitSubclass(h, lin, body), LAMBDA exc :
        IF exc # "" THEN Raise(exc, h, l)
        ELSE Return(Len(h) + 1,
                    Append(h, [Obj("class") EXCEPT
                        !.mro = <<Len(h) + 1>> \o lin, !.dict = body.dict,
                        !.hook = body.hook, !.hasFinals = body.hasFinals,
                        !.finals = body.finals,
                        !.meta = IF metas = {} THEN 0 ELSE CHOOSE m \in metas : TRUE,
                        !.cls_ = body.cls_, !.new = body.new, !.slots = body.slots]),
                    l))))

\* --------------------------------------------------------- modifiers.py
\* @final: a class gets a subclass Final whose __init_subclass__ raises; a
\* method is returned as it is.
final(h, l, o) ==
    IF IsClass(h, o)
    THEN ClassStmt(h, l, <<o>>, [Body EXCEPT !.hook = "final"])
    ELSE Return(o, h, l)

\* @partially_final: the subclass InheritanceSupport of base, whose
\* __final_methods__ are the @final methods of base's own body.
partially_final(h, l, base) ==
    IF ~IsClass(h, base) THEN Raise("TypeError", h, l)
    ELSE ClassStmt(h, l, <<base>>,
            [Body EXCEPT !.hook = "partial", !.hasFinals = TRUE,
                         !.finals = {p \in h[base].dict :
                                        has_decorator(h, l, p[2], Dec("final"))}])

\* The __call__ that type(c) inherits from a singleton's cls_, 0 when none.
MetaCall(h, c) ==
    IF h[c].meta # 0 THEN LookupMethod(h, h[h[h[c].meta].cls_].mro, "__call__") ELSE 0

\* @singleton: no custom __init__ (an object that is no class never has
\* object.__init__ itself).  class SingletonMeta(cls_, type) is a subclass of
\* cls_: a cls_ with __slots__ conflicts with type's layout, and cls_'s
\* __init_subclass__ runs.  class Singleton(metaclass=SingletonMeta) calls
\* SingletonMeta: when cls_ has a SingletonMeta for its own type, that call is
\* the __call__ of the older cls_ (whose result, None, is then what is
\* returned) or type.__call__, which finds the older Singleton.__new__.
singleton(h, l, cls_) ==
    IF ~IsClass(h, cls_) THEN Raise("TypeError", h, l)
    ELSE IF LookupMethod(h, h[cls_].mro, "__init__") # 0 THEN Raise("TypeError", h, l)
    ELSE IF SolidBase(h, cls_) # 0 THEN Raise("TypeError", h, l)
    ELSE IF InitSubclass(h, h[cls_].mro, Body) # ""
         THEN Raise(InitSubclass(h, h[cls_].mro, Body), h, l)
    ELSE IF h[cls_].meta # 0
         THEN IF MetaCall(h, cls_) # 0 THEN Return(NoneId, h, l)
              ELSE Raise("ValueError", h, l)
    ELSE ClassStmt(h, l, <<>>,
            [Body EXCEPT !.hook = "singleton", !.new = "raise", !.cls_ = cls_])

\* @call_once: a new function _wrapper around func.
call_once(h, l, func) == Return(Len(h) + 1, Append(h, Obj("function")), l)

\* @deprecated(obj, level): level must be a DeprecationLevel (a decorator
\* configured with a positional object is not); a class gets a wrapped __init__
\* and is returned, another callable is wrapped, anything else is refused.
deprecated(h, l, o, cfg) ==
    LET w == Len(h) + 1 IN
    IF cfg = "obj" THEN Raise("TypeError", h, l)
    ELSE IF IsClass(h, o)
    THEN Return(o, Append([h EXCEPT ![o].dict =
                              {p \in @ : p[1] # "__init__"} \cup {<<"__init__", w>>}],
                          Obj("function")), l)
    ELSE IF Callable(h, o) THEN Return(w, Append(h, Obj("function")), l)
    ELSE Raise("TypeError", h, l)

\* The function a decorator wraps (self.__wrapped__), called on obj.  "nothing"
\* and "once" are client decorators: one whose function returns None, and one
\* built with decorator(only_once=True) whose function returns obj.
Wrapped(self, h, l, o) ==
    CASE self[1] = "final" -> final(h, l, o)
      [] self[1] = "partially_final" -> partially_final(h, l, o)
      [] self[1] = "singleton" -> singleton(h, l, o)
      [] self[1] = "call_once" -> call_once(h, l, o)
      [] self[1] = "deprecated" ->
            deprecated(h, l, o, IF self[2] = 0 THEN "none" ELSE h[self[2]].cfg)
      [] self[1] = "nothing" -> Return(NoneId, h, l)
      [] OTHER -> Return(o, h, l)

only_once(self) == self[1] = "once"

\* The end of _call_internal: `decorators` (the list of ret) is extended by
\* obj's list when that is neither None nor empty, then self is appended.
RecordNoExtend(l, decorators, base, self) ==
    [l EXCEPT ![decorators] = Append(@, self)]

Record(l, decorators, base, self) ==
    LET ext == IF base # 0 /\ Len(l[base]) > 0
               THEN [l EXCEPT ![decorators] = @ \o l[base]]
               ELSE l
    IN [ext EXCEPT ![decorators] = Append(@, self)]

\* _Decorator._call_internal(self, obj).  The closing update_wrapper(ret, obj,
\* updated=()) copies names and __doc__ only: __decorators__ is not among its
\* WRAPPER_ASSIGNMENTS.
_call_internal(self, h, l, o) ==
    With(IF only_once(self) THEN decorators_of(h, l, o)
         ELSE [h |-> h, l |-> l, res |-> 0], LAMBDA chk :
    IF only_once(self) /\ chk.res # 0 /\ InSeq(self, chk.l[chk.res])
    THEN Raise("ValueError", chk.h, chk.l)
    ELSE
    With(Wrapped(self, chk.h, chk.l, o), LAMBDA w :
    IF w.exc # "" THEN Raise(w.exc, w.h, w.l)
    ELSE
    With(decorators_of(w.h, w.l, w.ret), LAMBDA dr :
    IF dr.res = 0 THEN Raise("TypeError", w.h, w.l)
    ELSE
    With(decorators_of(dr.h, dr.l, o), LAMBDA db :
        Return(w.ret, db.h, Record(db.l, dr.res, db.res, self))))))

\* _ConfigurableDecorator.__call__(self, obj, **kwargs): with arguments, or with
\* an obj that is neither callable nor a class, a new configured decorator
\* (once only); else the application.
ConfigurableCall(self, h, l, o, kw) ==
    LET mine == IF self[2] = 0 THEN "none" ELSE h[self[2]].cfg IN
    IF kw \/ ~Callable(h, o)
    THEN IF mine # "none" THEN Raise("ValueError", h, l)
         ELSE Return(Len(h) + 1,
                     Append(h, [Obj("confdec") EXCEPT
                                   !.cfg = IF o # NoneId THEN "obj"
                                           ELSE IF kw THEN "kw" ELSE "none"]), l)
    ELSE _call_internal(self, h, l, o)

\* -------------------------------------------------------------- freeze
\* Exception classes: UnfreezableObjectError and FrozenMemberError derive from
\* Exception alone.
IsA(exc, cls) ==
    \/ exc = cls
    \/ cls = "Exception" /\ exc # ""

\* _frozen_builtins_mapping
_frozen_builtins_mapping ==
    [t \in {"str", "int", "float", "bool", "list", "set"} |->
        CASE t = "list" -> "tuple" [] t = "set" -> "frozenset" [] OTHER -> t]

\* What _get_frozen_wrapper_for(m) returns, as the value of an attribute: a
\* function whose call raises FrozenMemberError.
Frozen == -1

\* The names the loop of freeze leaves alone
Exempt == {"__str__", "__repr__", "__eq__", "__lt__", "__le__", "__gt__", "__ge__"}

\* dir(o) for an instance o, the members of object left out (the loop of
\* freeze is modelled for instances)
Dir(h, o) ==
    IF h[o].kind # "instance" THEN {}
    ELSE {p[1] : p \in h[o].shadow}
            \cup {p[1] : p \in UNION {h[k].dict : k \in SeqSet(h[h[o].cls].mro)}}

IsProperty(h, x) == x > 0 /\ h[x].kind = "property"

\* getattr(o, name) for an instance o: a property of the class comes first, then
\* the instance's own attribute, then the class's member.
GetAttr(h, o, name) ==
    LET c == LookupMethod(h, h[h[o].cls].mro, name) IN
    IF IsProperty(h, c) THEN c
    ELSE IF \E p \in h[o].shadow : p[1] = name
         THEN (CHOOSE p \in h[o].shadow : p[1] = name)[2]
         ELSE c

\* o.name = x, by setattr_safe: nothing happens when o takes no attribute
SetAttr(h, o, name, x) ==
    IF ~Settable(h, o) THEN h
    ELSE [h EXCEPT ![o].shadow = {p \in @ : p[1] # name} \cup {<<name, x>>}]

\* copy.deepcopy(v): lists, sets and dicts are copied, an instance is with its
\* attributes and its own __decorators__; anything else is the same object.
RECURSIVE DeepCopy(_, _, _)
RECURSIVE CopyAttrs(_, _, _, _)
CopyAttrs(h, l, to, todo) ==
    IF todo = {} THEN [h |-> h, l |-> l]
    ELSE LET p == CHOOSE q \in todo : TRUE IN
         With(DeepCopy(h, l, p[2]), LAMBDA c :
            CopyAttrs([c.h EXCEPT ![to].shadow = @ \cup {<<p[1], c.ret>>}], c.l,
                      to, todo \ {p}))

DeepCopy(h, l, v) ==
    IF v <= 0 THEN [h |-> h, l |-> l, ret |-> v]
    ELSE IF h[v].kind = "value" /\ h[v].pytype \in {"list", "set", "dict"}
    THEN [h |-> Append(h, h[v]), l |-> l, ret |-> Len(h) + 1]
    ELSE IF h[v].kind = "instance"
    THEN With(CopyAttrs(Append(h, [h[v] EXCEPT
                                     !.shadow = NoPairs,
                                     !.decl = IF @ = 0 THEN 0 ELSE Len(l) + 1]),
                        IF h[v].decl = 0 THEN l ELSE Append(l, l[h[v].decl]),
                        Len(h) + 1, h[v].shadow),
              LAMBDA c : [h |-> c.h, l |-> c.l, ret |-> Len(h) + 1])
    ELSE [h |-> h, l |-> l, ret |-> v]

\* has_decorator(obj.__class__, freezable): the class of an instance, the
\* SingletonMeta (a subclass of cls_) of a class that has one; the types of
\* other objects carry no __decorators__.
ClassHasDecorator(h, l, o, d) ==
    CASE h[o].kind = "instance" -> has_decorator(h, l, h[o].cls, d)
      [] h[o].kind = "class" /\ h[o].meta # 0 ->
            has_decorator(h, l, h[h[o].meta].cls_, d)
      [] OTHER -> FALSE

\* freeze(obj, in_place=...).  FreezeFields is its loop over the names of
\* dir(obj), run for an instance: a property of the class is replaced, on the
\* class, by a _FrozenProperty; a callable that carries neither heat nor
\* _getter_marker by a frozen wrapper, on obj; any other attribute by its frozen
\* value, unless that raises UnfreezableObjectError.
RECURSIVE freeze(_, _, _, _)
RECURSIVE FreezeFields(_, _, _, _, _)
FreezeFields(h, l, obj, names, in_place) ==
    IF names = {} THEN [h |-> h, l |-> l, exc |-> ""]
    ELSE LET name == CHOOSE n \in names : TRUE
             rest == names \ {name}
             cls_field == LookupMethod(h, h[h[obj].cls].mro, name)
             field == GetAttr(h, obj, name)
         IN
         IF IsProperty(h, cls_field)
         THEN FreezeFields(
                 Append([h EXCEPT ![h[obj].cls].dict =
                            {p \in @ : p[1] # name} \cup {<<name, Len(h) + 1>>}],
                        [Obj("property") EXCEPT !.pytype = "_FrozenProperty"]),
                 l, obj, rest, in_place)
         ELSE IF /\ field = Frozen \/ Callable(h, field)
                 /\ ~(field # Frozen /\ (\/ has_decorator(h, l, field, Dec("heat"))
                                        \/ has_decorator(h, l, field, Dec("_getter_marker"))))
         THEN FreezeFields(SetAttr(h, obj, name, Frozen), l, obj, rest, in_place)
         ELSE With(freeze(h, l, field, in_place), LAMBDA r :
                 IF r.exc = "UnfreezableObjectError"
                 THEN FreezeFields(r.h, r.l, obj, rest, in_place)
                 ELSE IF r.exc # "" THEN [h |-> r.h, l |-> r.l, exc |-> r.exc]
                 ELSE FreezeFields(SetAttr(r.h, obj, name, r.ret), r.l, obj, rest, in_place))

freeze(h, l, obj, in_place) ==
    IF h[obj].kind = "value" /\ h[obj].pytype \in DOMAIN _frozen_builtins_mapping
    THEN IF in_place THEN Raise("UnfreezableObjectError", h, l)
         ELSE IF _frozen_builtins_mapping[h[obj].pytype] = h[obj].pytype
         THEN Return(obj, h, l)
         ELSE Return(Len(h) + 1,
                     Append(h, [Obj("value") EXCEPT
                                   !.pytype = _frozen_builtins_mapping[h[obj].pytype]]), l)
    ELSE IF ~ClassHasDecorator(h, l, obj, Dec("freezable"))
    THEN Raise("UnfreezableObjectError", h, l)
    ELSE With(IF in_place THEN [h |-> h, l |-> l, ret |-> obj] ELSE DeepCopy(h, l, obj),
              LAMBDA c :
         With(FreezeFields(c.h, c.l, c.ret, Dir(c.h, c.ret) \ Exempt, in_place),
              LAMBDA f :
            IF f.exc # "" THEN Raise(f.exc, f.h, f.l)
            ELSE IF ~Settable(f.h, c.ret) THEN Raise("AttributeError", f.h, f.l)
            ELSE Return(c.ret, [f.h EXCEPT ![c.ret].frozen = TRUE], f.l)))

\* o.name(): what calling the attribute name of the instance o does
CallMethod(h, o, name) ==
    IF GetAttr(h, o, name) = Frozen THEN "FrozenMemberError" ELSE "runs"

\* o.name for a property of o's class: a property built by @property calls its
\* fget; a _FrozenProperty calls property_.getter, which builds a property.
ReadProperty(h, o, name) ==
    IF h[LookupMethod(h, h[h[o].cls].mro, name)].pytype = "_FrozenProperty"
    THEN "a property object" ELSE "the value"

\* ------------------------------------------------------------ the actions
\* An operation that raises leaves the program where it was, but for what it
\* had already stored; one that returns leaves its result in the heap.
RECURSIVE TotalLen(_)
TotalLen(l) == IF l = <<>> THEN 0 ELSE Len(Head(l)) + TotalLen(Tail(l))

Fits(h, l) == Len(h) <= cap.objs /\ TotalLen(l) <= cap.entries

Pad(a, n) == a \o [i \in 1..(n - Len(a)) |-> {}]

DecoratorsSeq(h, l, o) == IF LookupDecl(h, o) # 0 THEN l[LookupDecl(h, o)] ELSE <<>>

Commit(r, d, o) ==
    /\ Fits(r.h, r.l)
    /\ heap' = r.h
    /\ lists' = r.l
    /\ applied' = IF d # Dec("") /\ r.exc = ""
                  THEN [Pad(applied, Len(r.h)) EXCEPT ![r.ret] = @ \cup applied[o] \cup {d}]
                  ELSE Pad(applied, Len(r.h))
    /\ UNCHANGED <<cap, elsewhere>>

\* class X(*bases): with the methods of dict in its body
DefClass(bases, dict) ==
    Commit(ClassStmt(heap, lists, bases, [Body EXCEPT !.dict = dict]), Dec(""), 0)

\* d(obj) for a decorator d built with decorator(): _Decorator.__call__
Apply(d, o) ==
    \E r \in {_call_internal(d, heap, lists, o)} : Commit(r, d, o)

\* d(obj) or d(**kwargs) for one built with configurable_decorator()
CallConfigurable(d, o, kw) ==
    \E r \in {ConfigurableCall(d, heap, lists, o, kw)} :
        Commit(r, IF ~kw /\ Callable(heap, o) THEN d ELSE Dec(""), o)

\* c() were Singleton.__new__ not looked up
ClassCallNoNew(h, l, c) ==
    IF MetaCall(h, c) # 0 THEN Return(NoneId, h, l)
    ELSE Return(Len(h) + 1, Append(h, [Obj("instance") EXCEPT !.cls = c]), l)

\* c(): type(c).__call__.  A singleton's metaclass derives from cls_, so a
\* __call__ of cls_ is what runs, with c as self; else type.__call__ calls the
\* first __new__ of c's __mro__, Singleton's raising, object's making an instance.
ClassCall(h, l, c) ==
    IF MetaCall(h, c) # 0 THEN Return(NoneId, h, l)
    ELSE IF \E k \in SeqSet(h[c].mro) : h[k].new = "raise" THEN Raise("ValueError", h, l)
    ELSE Return(Len(h) + 1, Append(h, [Obj("instance") EXCEPT !.cls = c]), l)

Instantiate(c) == Commit(ClassCall(heap, lists, c), Dec(""), 0)

Configurables(h) ==
    {Dec("deprecated")} \cup {CfgDec("deprecated", i) : i \in {j \in Ids(h) : h[j].kind = "confdec"}}

\* No interface installed, nothing to dump
InitRest ==
    /\ meta_path = <<>>
    /\ parent_dict = <<>>
    /\ fields = <<>>

\* ----------------------------------- decorators over objects of every kind
\* The objects in scope when the program starts: a builtin (such as len), a
\* function, a class with an instance, a class with __slots__ with an instance.
ScopeDecor ==
    <<Obj("builtin"),
      Obj("function"),
      [Obj("class") EXCEPT !.mro = <<3>>],
      [Obj("instance") EXCEPT !.cls = 3],
      [Obj("class") EXCEPT !.mro = <<5>>, !.slots = TRUE],
      [Obj("instance") EXCEPT !.cls = 5]>>

InitDecor ==
    /\ heap = ScopeDecor
    /\ lists = <<>>
    /\ applied = [i \in 1..Len(ScopeDecor) |-> {}]
    /\ cap = [objs |-> Len(ScopeDecor) + MaxNew, entries |-> MaxNew + 2]
    /\ InitRest

PlainDecorators == {Dec("call_once"), Dec("nothing"), Dec("once")}

NextDecor ==
    \/ \E d \in PlainDecorators, o \in Ids(heap) : Apply(d, o)
    \/ \E d \in Configurables(heap), o \in Ids(heap) : CallConfigurable(d, o, FALSE)
    \/ \E d \in Configurables(heap) : CallConfigurable(d, NoneId, TRUE)

SpecDecor == InitDecor /\ [][NextDecor]_vars

\* --------------------------------------------------- the class modifiers
\* The objects in scope when the program starts:
\*     def g(...): ...
\*     class A0: pass
\*     class P0:
\*         @final
\*         def m(...): ...
\*     class K0:
\*         __call__ = g
ScopeClass ==
    <<[Obj("function") EXCEPT !.decl = 1],
      Obj("function"),
      [Obj("class") EXCEPT !.mro = <<3>>],
      [Obj("class") EXCEPT !.mro = <<4>>, !.dict = {<<"m", 1>>}],
      [Obj("class") EXCEPT !.mro = <<5>>, !.dict = {<<"__call__", 2>>}]>>

InitClass ==
    /\ heap = ScopeClass
    /\ lists = << <<Dec("final")>> >>
    /\ applied = [i \in 1..Len(ScopeClass) |-> IF i = 1 THEN {Dec("final")} ELSE {}]
    /\ cap = [objs |-> Len(ScopeClass) + MaxClasses, entries |-> MaxClasses + 1]
    /\ InitRest

ClassModifiers == {Dec("final"), Dec("partially_final"), Dec("singleton")}

\* The base lists of a class statement: one class, or two different ones.
BaseLists(h) ==
    {<<a>> : a \in Classes(h)}
        \cup {<<x[1], x[2]>> : x \in {y \in Classes(h) \X Classes(h) : y[1] # y[2]}}

\* The bodies of a class statement: empty, or `m = g`.
Bodies == {NoPairs, {<<"m", 2>>}}

\* Every step that changes the program makes one object: none is taken once
\* the run holds cap.objs of them.
NextClass ==
    /\ Len(heap) < cap.objs
    /\ \/ \E d \in ClassModifiers, o \in Classes(heap) : Apply(d, o)
       \/ \E bases \in BaseLists(heap), dict \in Bodies : DefClass(bases, dict)

SpecClass == InitClass /\ [][NextClass]_vars

\* ------------------------------------------ singletons and their instances
InitSingleton ==
    /\ heap = ScopeClass
    /\ lists = << <<Dec("final")>> >>
    /\ applied = [i \in 1..Len(ScopeClass) |-> IF i = 1 THEN {Dec("final")} ELSE {}]
    /\ cap = [objs |-> Len(ScopeClass) + MaxNew + 1, entries |-> MaxNew + 2]
    /\ InitRest

NextSingleton ==
    \/ NextClass
    \/ \E c \in Classes(heap) : Len(heap) < cap.objs /\ Instantiate(c)

SpecSingleton == InitSingleton /\ [][NextSingleton]_vars

\* ------------------------------------------------------------- freezing
\* annotation.__call__(self, annotated): returns annotated, and that is all.
Annotate(a, o) ==
    /\ applied' = [applied EXCEPT ![o] = @ \cup {a}]
    /\ UNCHANGED <<heap, lists, cap, elsewhere>>

\* freeze(o, in_place=in_place)
Freeze(o, in_place) == Commit(freeze(heap, lists, o, in_place), Dec(""), 0)

\* The objects in scope when the program starts:
\*     class F:
\*         def m(self): ...
\*         def h(self): ...
\*         @property
\*         def p(self): ...
\*     class N:
\*         m = F.m
\* a value of each builtin type that freeze maps, an instance of F whose
\* attribute x is the list, and an instance of N.
ScopeFreeze ==
    <<Obj("function"),
      Obj("function"),
      [Obj("property") EXCEPT !.pytype = "property"],
      [Obj("class") EXCEPT !.mro = <<4>>, !.dict = {<<"m", 1>>, <<"h", 2>>, <<"p", 3>>}],
      [Obj("class") EXCEPT !.mro = <<5>>, !.dict = {<<"m", 1>>}],
      [Obj("value") EXCEPT !.pytype = "list"],
      [Obj("value") EXCEPT !.pytype = "set"],
      [Obj("value") EXCEPT !.pytype = "str"],
      [Obj("value") EXCEPT !.pytype = "int"],
      [Obj("value") EXCEPT !.pytype = "float"],
      [Obj("value") EXCEPT !.pytype = "bool"],
      [Obj("instance") EXCEPT !.cls = 4, !.shadow = {<<"x", 6>>}],
      [Obj("instance") EXCEPT !.cls = 5]>>

InitFreeze ==
    /\ heap = ScopeFreeze
    /\ lists = <<>>
    /\ applied = [i \in 1..Len(ScopeFreeze) |-> {}]
    /\ cap = [objs |-> Len(ScopeFreeze) + MaxNew, entries |-> MaxNew + 2]
    /\ InitRest

Annotations == {Dec("freezable"), Dec("heat")}

NextFreeze ==
    \/ \E a \in Annotations, o \in Classes(heap) \cup Functions(heap) : Annotate(a, o)
    \/ \E o \in Ids(heap), in_place \in BOOLEAN : Freeze(o, in_place)
    \/ \E c \in Classes(heap) : Instantiate(c)
    \/ \E o \in Classes(heap) : Apply(Dec("once"), o)

SpecFreeze == InitFreeze /\ [][NextFreeze]_vars

\* ------------------------------------------------- hypnosis/interfaces.py
\* A string is the sequence of its dots and of the runs of characters between
\* them: "interface.json." is <<"interface", ".", "json", ".">>.  A path joins
\* its parts with "/".  None and the empty string are both <<>>, since the code
\* only tests them for truth; the extension None is the string "None".
ProperPrefixes ==
    {<<"interface", "interfaces">>, <<"jso", "json">>, <<"json", "jsonx">>, <<"jso", "jsonx">>}

\* The names the import system is asked for
Names ==
    {<<"interface">>, <<"interfaces">>, <<"os">>, <<"json">>, <<"jso">>, <<"data">>,
     <<"interface", ".", "json">>, <<"interface", ".", "csv">>,
     <<"interface", ".", "jso">>, <<"interface", ".", "jsonx">>,
     <<"interface", ".", "xml">>, <<"interfaces", ".", "json">>,
     <<"interface", ".", "json", ".", "file">>, <<"interface", ".", "csv", ".", "data">>,
     <<"interface", ".", "csv", ".", "file">>, <<"interface", ".", "json", ".", "nope">>,
     <<"interface", ".", "json", ".", "pkg">>,
     <<"interface", ".", "json", ".", "pkg", ".", "mod">>,
     <<"interface", ".", "jsonx", ".", "file">>, <<"interface", ".", "xml", ".", "file">>,
     <<"interfaces", ".", "json", ".", "file">>, <<"data", ".", "file">>,
     <<"json", ".", "file">>}

\* The directories and files the search may meet
FileSystem(dirs, files) == [dirs |-> dirs, files |-> files]

FileSystems ==
    {FileSystem({}, {}),
     FileSystem({<<"cwd", "/", "pkg">>},
                {<<"cwd", "/", "file", ".", "json">>, <<"cwd", "/", "data", ".", "csv">>,
                 <<"cwd", "/", "pkg", "/", "mod", ".", "json">>}),
     FileSystem({<<"cwd", "/", "file">>}, {<<"lib", "/", "file", ".", "json">>}),
     FileSystem({}, {<<"cwd", "/", "file", ".", "csv">>, <<"lib", "/", "file", ".", "json">>,
                     <<"lib", "/", "data", ".", "json">>})}

\* The path argument of find_spec: None, or the entries of a package
Paths == {<<>>, <<"lib">>}

\* a is a prefix of b, for two runs of characters
CharPrefix(a, b) == a = b \/ <<a, b>> \in ProperPrefixes

\* s.startswith(p)
StartsWith(s, p) ==
    \/ Len(p) = 0
    \/ /\ Len(p) <= Len(s)
       /\ \A k \in 1..(Len(p) - 1) : s[k] = p[k]
       /\ CharPrefix(p[Len(p)], s[Len(p)])

\* s.removeprefix(p), for a p that ends with a dot
RemovePrefix(s, p) == IF StartsWith(s, p) THEN SubSeq(s, Len(p) + 1, Len(s)) ELSE s

\* s.replace(".", "/")
DotsToSlashes(s) == [k \in 1..Len(s) |-> IF s[k] = "." THEN "/" ELSE s[k]]

\* os.path.join(entry, name), for a relative name
Join(entry, name) == <<entry, "/">> \o name

\* A finder of sys.meta_path.  The standard ones only keep their place here.
Finder(cls, loader, extension, pure_domain) ==
    [cls |-> cls, loader |-> loader, extension |-> extension, pure_domain |-> pure_domain]

StandardFinders ==
    <<Finder("BuiltinImporter", <<"", "">>, "None", <<>>),
      Finder("FrozenImporter", <<"", "">>, "None", <<>>),
      Finder("PathFinder", <<"", "">>, "None", <<>>)>>

IsInterfaceFinder(f) == f.cls = "_InterfaceMetaPathFinder"

\* The domain of a finder without its closing dot
DomainNoDot(self) ==
    IF self.pure_domain # <<>> THEN self.pure_domain
    ELSE <<"interface", ".", self.extension>>

\* _InterfaceMetaPathFinder.domain
domain(self) ==
    (IF self.pure_domain # <<>> THEN self.pure_domain
     ELSE <<"interface", ".", self.extension>>) \o <<".">>

\* What find_spec gives back: None, a ModuleSpec, or the NameError it raises
NoSpec == [kind |-> "None", name |-> <<>>, loader |-> <<"", "", <<>> >>, is_package |-> FALSE]

ModuleSpec(name, loader, is_package) ==
    [kind |-> "ModuleSpec", name |-> name, loader |-> loader, is_package |-> is_package]

NameErrorFor(name) ==
    [kind |-> "NameError", name |-> name, loader |-> <<"", "", <<>> >>, is_package |-> FALSE]

DummyImportLoader == <<"DummyImportLoader", "", <<>> >>

\* The loop of find_spec over the entries of path
RECURSIVE SearchEntries(_, _, _, _)
SearchEntries(self, name, path, fs) ==
    IF path = <<>> THEN NameErrorFor(name)
    ELSE IF Join(Head(path), name) \in fs.dirs
    THEN ModuleSpec(name, DummyImportLoader, TRUE)
    ELSE IF Join(Head(path), name) \o <<".", self.extension>> \in fs.files
    THEN ModuleSpec(name,
                    <<self.loader[1], self.loader[2],
                      Join(Head(path), name) \o <<".", self.extension>> >>,
                    FALSE)
    ELSE SearchEntries(self, name, Tail(path), fs)

\* [os.getcwd()] + sys.path
DefaultPath == <<"cwd", "lib">>

\* _InterfaceMetaPathFinder.find_spec(self, fullname, path), over the file system fs
find_spec(self, fullname, path, fs) ==
    IF StartsWith(domain(self), fullname \o <<".">>)
    THEN ModuleSpec(fullname, DummyImportLoader, TRUE)
    ELSE IF ~StartsWith(fullname, domain(self)) THEN NoSpec
    ELSE SearchEntries(self, DotsToSlashes(RemovePrefix(fullname, domain(self))),
                       IF path = <<>> THEN DefaultPath ELSE path, fs)

\* The classes of the module: ExtraInterface, and its subclasses in the order
\* globals() holds them.
Interface(name, extension) ==
    [name |-> name, __extension__ |-> extension, __domain__ |-> <<>>,
     __storage_field_name__ |-> "content"]

ExtraInterface == Interface("ExtraInterface", "None")
JsonInterface == Interface("JsonInterface", "json")
CsvInterface == Interface("CsvInterface", "csv")

\* Installer._retrieve_extra_interfaces
_retrieve_extra_interfaces == <<JsonInterface, CsvInterface>>

\* The finder ExtraInterface.install builds for cls
FinderOf(cls, storage_field, domain_) ==
    Finder("_InterfaceMetaPathFinder",
           <<cls.name, IF storage_field # "" THEN storage_field
                       ELSE cls.__storage_field_name__>>,
           cls.__extension__,
           IF domain_ # <<>> THEN domain_ ELSE cls.__domain__)

\* An install that puts its finder behind the finders already there
InstallAppend(mp, cls, storage_field, domain_) ==
    IF cls.__extension__ = "None" THEN [mp |-> mp, exc |-> "ValueError"]
    ELSE [mp |-> Append(mp, FinderOf(cls, storage_field, domain_)), exc |-> ""]

\* ExtraInterface.install(cls, storage_field=..., domain=...) on sys.meta_path mp
install(mp, cls, storage_field, domain_) ==
    IF cls.__extension__ = "None" THEN [mp |-> mp, exc |-> "ValueError"]
    ELSE [mp |-> <<FinderOf(cls, storage_field, domain_)>> \o mp, exc |-> ""]

\* The loops of Installer.install and Installer.install_all: interface.install()
\* for each interface of the list that passes
RECURSIVE InstallEach(_, _)
InstallEach(mp, interfaces) ==
    IF interfaces = <<>> THEN [mp |-> mp, exc |-> ""]
    ELSE With(install(mp, Head(interfaces), "", <<>>), LAMBDA r :
            IF r.exc # "" THEN r ELSE InstallEach(r.mp, Tail(interfaces)))

\* Installer.install(file_extension)
InstallerInstall(mp, file_extension) ==
    InstallEach(mp, SelectSeq(_retrieve_extra_interfaces,
                              LAMBDA c : c.__extension__ = file_extension))

\* Installer.install_all()
install_all(mp) == InstallEach(mp, _retrieve_extra_interfaces)

\* ------------------------------------------------------- the import system
InitImport ==
    /\ heap = <<>>
    /\ lists = <<>>
    /\ applied = <<>>
    /\ cap = [objs |-> 0, entries |-> 0]
    /\ meta_path = StandardFinders
    /\ parent_dict = <<>>
    /\ fields = <<>>

SetMetaPath(r) ==
    /\ Len(r.mp) <= Len(StandardFinders) + MaxFinders
    /\ meta_path' = r.mp
    /\ UNCHANGED <<heap, lists, applied, cap, parent_dict, fields>>

InstallAll == SetMetaPath(install_all(meta_path))

Install(file_extension) == SetMetaPath(InstallerInstall(meta_path, file_extension))

InstallInterface(cls, domain_) == SetMetaPath(install(meta_path, cls, "", domain_))

Extensions == {"json", "csv", "xml"}

NextImport ==
    \/ InstallAll
    \/ \E e \in Extensions : Install(e)
    \/ \E c \in {ExtraInterface, JsonInterface, CsvInterface}, d \in {<<>>, <<"data">>} :
          InstallInterface(c, d)

SpecImport == InitImport /\ [][NextImport]_vars

\* ------------------------------------------------------------ egg/io.py
\* A value is its type and what it holds: a str holds the sequence s of its
\* characters, an int its number n, a bool 1 or 0 (True == 1 in Python), a float
\* its kind (finite, nan, inf, -inf) and, when finite, its number n of tenths.
\* An operation that raises gives the exception in place of a value.
Val(type, s, n, kind) == [type |-> type, s |-> s, n |-> n, kind |-> kind]
PyStr(chars) == Val("str", chars, 0, "")
PyInt(n) == Val("int", <<>>, n, "")
PyBool(b) == Val("bool", <<>>, IF b THEN 1 ELSE 0, "")
PyFloat(kind, tenths) == Val("float", <<>>, tenths, kind)
Exc(name) == Val("exc", <<>>, 0, name)

\* The number a bool, an int or a float stands for in a comparison
Num(x) ==
    IF x.type = "float" THEN [kind |-> x.kind, tenths |-> x.n]
    ELSE [kind |-> "finite", tenths |-> 10 * x.n]

\* a == b in Python
PyEq(a, b) ==
    IF a.type = "exc" \/ b.type = "exc" THEN FALSE
    ELSE IF a.type = "str" \/ b.type = "str" THEN a.type = b.type /\ a.s = b.s
    ELSE Num(a).kind # "nan" /\ Num(b).kind # "nan" /\ Num(a) = Num(b)

DigitChars == <<"0", "1", "2", "3", "4", "5", "6", "7", "8", "9">>

IsDigit(c) == \E d \in 1..Len(DigitChars) : DigitChars[d] = c

DigitVal(c) == (CHOOSE d \in 1..Len(DigitChars) : DigitChars[d] = c) - 1

\* The decimal digits of a natural number
RECURSIVE Digits(_)
Digits(n) ==
    IF n < Len(DigitChars) THEN <<DigitChars[n + 1]>>
    ELSE Digits(n \div Len(DigitChars)) \o <<DigitChars[(n % Len(DigitChars)) + 1]>>

\* The number a sequence of decimal digits writes
RECURSIVE DigitsVal(_)
DigitsVal(chars) ==
    IF chars = <<>> THEN 0
    ELSE Len(DigitChars) * DigitsVal(SubSeq(chars, 1, Len(chars) - 1))
           + DigitVal(chars[Len(chars)])

AllDigits(chars) == chars # <<>> /\ \A k \in 1..Len(chars) : IsDigit(chars[k])

\* type(value).__name__
TypeName(value) ==
    IF value.type = "bool" THEN <<"b", "o", "o", "l">>
    ELSE IF value.type = "int" THEN <<"i", "n", "t">>
    ELSE IF value.type = "float" THEN <<"f", "l", "o", "a", "t">>
    ELSE <<"s", "t", "r">>

\* str(value), as the f-string of create_field formats it
Format(value) ==
    IF value.type = "str" THEN value.s
    ELSE IF value.type = "bool"
    THEN (IF value.n = 1 THEN <<"T", "r", "u", "e">> ELSE <<"F", "a", "l", "s", "e">>)
    ELSE IF value.type = "int"
    THEN (IF value.n < 0 THEN <<"-">> \o Digits(-value.n) ELSE Digits(value.n))
    ELSE IF value.kind = "nan" THEN <<"n", "a", "n">>
    ELSE IF value.kind = "inf" THEN <<"i", "n", "f">>
    ELSE IF value.kind = "-inf" THEN <<"-", "i", "n", "f">>
    ELSE With(IF value.n < 0 THEN -value.n ELSE value.n, LAMBDA t :
            (IF value.n < 0 THEN <<"-">> ELSE <<>>)
              \o Digits(t \div 10) \o <<".">> \o Digits(t % 10))

\* chars without the blanks around it, as int() and float() read it
RECURSIVE Strip(_)
Strip(chars) ==
    IF chars # <<>> /\ Head(chars) \in {" ", "\n"} THEN Strip(Tail(chars))
    ELSE IF chars # <<>> /\ chars[Len(chars)] \in {" ", "\n"}
    THEN Strip(SubSeq(chars, 1, Len(chars) - 1))
    ELSE chars

\* The sign of a literal and what follows it
Signed(chars) ==
    With(Strip(chars), LAMBDA t :
        IF t # <<>> /\ Head(t) \in {"-", "+"}
        THEN [neg |-> Head(t) = "-", body |-> Tail(t)]
        ELSE [neg |-> FALSE, body |-> t])

\* int(raw_data)
ParseInt(raw_data) ==
    With(Signed(raw_data), LAMBDA s :
        IF ~AllDigits(s.body) THEN Exc("ValueError")
        ELSE PyInt(IF s.neg THEN -DigitsVal(s.body) ELSE DigitsVal(s.body)))

\* float(raw_data), for the literals with at most one decimal
ParseFloat(raw_data) ==
    With(Signed(raw_data), LAMBDA s :
        IF s.body = <<"n", "a", "n">> THEN PyFloat("nan", 0)
        ELSE IF s.body = <<"i", "n", "f">> THEN PyFloat(IF s.neg THEN "-inf" ELSE "inf", 0)
        ELSE IF AllDigits(s.body)
        THEN PyFloat("finite", (IF s.neg THEN -10 ELSE 10) * DigitsVal(s.body))
        ELSE IF /\ Len(s.body) >= 3
                /\ s.body[Len(s.body) - 1] = "."
                /\ AllDigits(SubSeq(s.body, 1, Len(s.body) - 2))
                /\ IsDigit(s.body[Len(s.body)])
        THEN PyFloat("finite",
                     (IF s.neg THEN -1 ELSE 1)
                       * (10 * DigitsVal(SubSeq(s.body, 1, Len(s.body) - 2))
                            + DigitVal(s.body[Len(s.body)])))
        ELSE Exc("ValueError"))

\* The characters that \w does not match
NonWord == {"<", ">", "-", "+", ".", " ", "\n"}

\* The places where a tag at the head of data may close
TagEnds(data) ==
    {k \in 3..Len(data) :
        data[1] = "<" /\ data[k] = ">" /\ \A j \in 2..(k - 1) : data[j] \notin NonWord}

\* What .* matches from position from on: the characters before the next newline
RawData(data, from) ==
    IF \E k \in from..Len(data) : data[k] = "\n"
    THEN SubSeq(data, from, Min({k \in from..Len(data) : data[k] = "\n"}) - 1)
    ELSE SubSeq(data, from, Len(data))

\* eval(data_type)(raw_data)
EvalCall(data_type, raw_data) ==
    IF data_type = <<"i", "n", "t">> THEN ParseInt(raw_data)
    ELSE IF data_type = <<"f", "l", "o", "a", "t">> THEN ParseFloat(raw_data)
    ELSE IF data_type = <<"b", "o", "o", "l">> THEN PyBool(raw_data # <<>>)
    ELSE IF data_type = <<"s", "t", "r">> THEN PyStr(raw_data)
    ELSE IF AllDigits(data_type) THEN Exc("TypeError")
    ELSE Exc("NameError")

\* JsonIO._cast_data(data), data being the characters of a str
_cast_data(data) ==
    IF TagEnds(data) # {}
    THEN EvalCall(SubSeq(data, 2, Min(TagEnds(data)) - 1),
                  RawData(data, Min(TagEnds(data)) + 1))
    ELSE PyStr(RawData(data, 1))

\* field.lstrip("_")
RECURSIVE LStrip(_)
LStrip(field) == IF field # <<>> /\ Head(field) = "_" THEN LStrip(Tail(field)) ELSE field

COMPONENT_FLAG == <<"_", "_", "c", "o", "m", "p", "o", "n", "e", "n", "t", "_", "_">>

\* The dictionary d with key set to value
SetItem(d, key, value) ==
    [k \in DOMAIN d \cup {key} |-> IF k = key THEN value ELSE d[k]]

\* __Dumper.create_field(field, value) on the dumper's _fields, for a scalar value
create_field(_fields, field, value) ==
    IF value.type = "str" THEN SetItem(_fields, field, value.s)
    ELSE SetItem(_fields, field, <<"<">> \o TypeName(value) \o <<">">> \o Format(value))

\* __Dumper.add(field) with the default transform
add(_parent_dict, _fields, field) ==
    IF field \notin DOMAIN _parent_dict THEN [fields |-> _fields, exc |-> "NameError"]
    ELSE [fields |-> create_field(_fields, LStrip(field), _parent_dict[field]), exc |-> ""]

\* ------------------------------------------------------- dumping an object
Strings ==
    {<<>>, <<"a">>, <<"a", "b">>, <<"T", "r", "u", "e">>, <<"<", "a">>,
     <<"<", "i", "n", "t", ">", "1">>, <<"<", "i", "n", "t", ">", "-", "1">>,
     <<"<", "i", "n", "t", ">">>, <<"<", "x", ">">>, <<"<", "1", ">", "z">>,
     <<"<", "b", "o", "o", "l", ">">>, <<"<", "s", "t", "r", ">", "a">>,
     <<"<", "f", "l", "o", "a", "t", ">", "1">>, <<"<", "a", " ", "b", ">", "c">>,
     <<"a", "\n", "b">>}

Floats ==
    {PyFloat("finite", 0), PyFloat("finite", 15), PyFloat("finite", -25),
     PyFloat("finite", 120), PyFloat("nan", 0), PyFloat("inf", 0), PyFloat("-inf", 0)}

Scalars ==
    {PyStr(chars) : chars \in Strings} \cup {PyInt(n) : n \in (-MaxInt)..MaxInt}
      \cup {PyBool(b) : b \in BOOLEAN} \cup Floats

FieldNames == {<<"x">>, <<"_", "y">>}

\* A JsonIOSupporter of class Foo with its attributes set, and a dumper for it
InitJson ==
    /\ heap = <<>>
    /\ lists = <<>>
    /\ applied = <<>>
    /\ cap = [objs |-> 0, entries |-> 0]
    /\ meta_path = <<>>
    /\ parent_dict \in [FieldNames -> Scalars]
    /\ fields = SetItem(<<>>, COMPONENT_FLAG, <<"F", "o", "o">>)

Add(field) ==
    /\ fields' = add(parent_dict, fields, field).fields
    /\ UNCHANGED <<heap, lists, applied, cap, meta_path, parent_dict>>

NextJson == \E field \in FieldNames \cup {<<"z">>} : Add(field)

SpecJson == InitJson /\ [][NextJson]_vars

\* ------------------------------------------------------------ properties
\* d(obj), whichever way d was built
Call(d, h, l, o) ==
    IF d[1] = "deprecated" THEN ConfigurableCall(d, h, l, o, FALSE)
    ELSE _call_internal(d, h, l, o)

\* r, returned by d(o), records d and every decorator o carried before
Carries(d, o, r) ==
    /\ has_decorator(r.h, r.l, r.ret, d)
    /\ SeqSet(DecoratorsSeq(heap, lists, o)) \subseteq SeqSet(DecoratorsSeq(r.h, r.l, r.ret))

C2_RaisesTypeError ==
    \A d \in PlainDecorators, o \in Ids(heap) :
        (\/ heap[o].kind = "class" /\ heap[o].slots
         \/ heap[o].kind = "builtin"
         \/ Wrapped(d, heap, lists, o).ret = NoneId)
            => _call_internal(d, heap, lists, o).exc = "TypeError"

\* The class statements a program may try: `class X(*bases): <dict>`
Attempt(bases, dict) == ClassStmt(heap, lists, bases, [Body EXCEPT !.dict = dict])

DecoratedWith(d) == {c \in Classes(heap) : d \in applied[c]}

Ancestors(c) == SeqSet(Tail(heap[c].mro))

\* C3 as stated: once a class is decorated with @final, every class statement
\* that lists the result as a base (next to classes that are no singletons)
\* raises TypeError, and no class has a final class for an ancestor.
C3_NoSubclassOfFinal ==
    /\ \A bases \in BaseLists(heap), dict \in Bodies :
          (/\ SeqSet(bases) \cap DecoratedWith(Dec("final")) # {}
           /\ \A b \in SeqSet(bases) : heap[b].meta = 0)
              => Attempt(bases, dict).exc = "TypeError"
    /\ \A c \in Classes(heap) : Ancestors(c) \cap DecoratedWith(Dec("final")) = {}

\* The classes decorated with @partially_final whose body defines a @final method
WithFinalMethod ==
    {c \in DecoratedWith(Dec("partially_final")) : heap[c].finals # {}}

\* The base lists through which a new class descends from a, by way of classes
\* that are neither final nor singletons.
DescendingFrom(a) ==
    {bases \in BaseLists(heap) :
        /\ InSeq(a, Lin(heap, bases))
        /\ \A k \in SeqSet(Lin(heap, bases)) : heap[k].hook \in {"none", "partial"}}

\* C4 as stated: for a class A decorated with @partially_final whose body
\* defines a @final method m, a class statement for a descendant of A whose body
\* defines m raises TypeError, and one for a descendant (of one base) that does
\* not define m creates the class.
C4_FinalMethodKept ==
    \A a \in WithFinalMethod : \A bases \in DescendingFrom(a) :
        /\ \A dict \in Bodies :
              (\E p \in dict : \E q \in heap[a].finals : p[1] = q[1] /\ p[2] # q[2])
                  => Attempt(bases, dict).exc = "TypeError"
        /\ Len(bases) = 1 => Attempt(bases, NoPairs).exc = ""

\* C5 as stated: calling a class decorated with @singleton raises ValueError.
C5_AsStated ==
    \A s \in DecoratedWith(Dec("singleton")) :
        ClassCall(heap, lists, s).exc = "ValueError"

\* C5, amended: calling a class S decorated with @singleton raises ValueError,
\* unless the decorated class has a __call__ method, which is then what runs,
\* with S as self; either way no instance is made, none of S ever exists, and
\* every method of the decorated class is found on S.
C5_Singleton ==
    \A s \in DecoratedWith(Dec("singleton")) :
        /\ ClassCall(heap, lists, s).exc =
              (IF LookupMethod(heap, heap[heap[s].cls_].mro, "__call__") # 0
               THEN "" ELSE "ValueError")
        /\ ClassCall(heap, lists, s).h = heap
        /\ \A i \in Ids(heap) :
              heap[i].kind = "instance" => ~InSeq(s, heap[heap[i].cls].mro)
        /\ \A k \in SeqSet(heap[heap[s].cls_].mro) : \A p \in heap[k].dict :
              LookupMethod(heap, SearchPath(heap, s), p[1])
                  = LookupMethod(heap, heap[heap[s].cls_].mro, p[1])

\* A singleton whose call raises and that has a method, next to an instance of
\* an ordinary class.
C5_Witness ==
    /\ \E s \in DecoratedWith(Dec("singleton")) :
          /\ MetaCall(heap, s) = 0
          /\ heap[heap[s].cls_].dict # {}
    /\ \E i \in Ids(heap) : heap[i].kind = "instance"

\* C6 as stated: a class statement that lists a class decorated with @singleton
\* as a base (next to a class that is neither final nor a singleton) raises
\* ValueError, and no class has a singleton for an ancestor.
C6_NoSubclassOfSingleton ==
    /\ \A bases \in BaseLists(heap), dict \in Bodies :
          (/\ Cardinality(SeqSet(bases) \cap DecoratedWith(Dec("singleton"))) = 1
           /\ SeqSet(bases) \cap DecoratedWith(Dec("final")) = {})
              => Attempt(bases, dict).exc = "ValueError"
    /\ \A c \in Classes(heap) : Ancestors(c) \cap DecoratedWith(Dec("singleton")) = {}

\* The instances of the classes that were, and that were not, decorated with @freezable
Instances == {o \in Ids(heap) : heap[o].kind = "instance"}

OfFreezable == {o \in Instances : Dec("freezable") \in applied[heap[o].cls]}

\* The names of the methods of o's class, and of its properties
MethodsOf(o) ==
    {n \in Dir(heap, o) : LookupMethod(heap, heap[heap[o].cls].mro, n) \in Functions(heap)}

PropertiesOf(o) ==
    {n \in Dir(heap, o) : IsProperty(heap, LookupMethod(heap, heap[heap[o].cls].mro, n))}

\* C7 as stated: freeze of an object that is no builtin value returns a frozen
\* object when its class was decorated with @freezable, and raises
\* UnfreezableObjectError when it was not.
C7_FreezableOnly ==
    \A o \in Instances, in_place \in BOOLEAN :
        LET r == freeze(heap, lists, o, in_place) IN
        IF o \in OfFreezable
        THEN r.exc = "" /\ r.h[r.ret].frozen
        ELSE r.exc = "UnfreezableObjectError"

\* C8 as stated: on the object r that freeze returns for an instance of a class
\* decorated with @freezable, calling a method raises TypeError, unless the
\* method was decorated with @heat, and then it runs.
C8_FrozenMethods ==
    \A o \in OfFreezable, in_place \in BOOLEAN :
        LET r == freeze(heap, lists, o, in_place) IN
        /\ r.exc = ""
        /\ \A n \in MethodsOf(o) :
              IF Dec("heat") \in applied[LookupMethod(heap, heap[heap[o].cls].mro, n)]
              THEN CallMethod(r.h, r.ret, n) = "runs"
              ELSE IsA(CallMethod(r.h, r.ret, n), "TypeError")

\* C9 as stated: for an instance o of a class decorated with @freezable,
\* freeze(o) returns a frozen copy and leaves o, its methods and the properties
\* of its class as they were; freeze(o, in_place=True) returns o, frozen.
C9_CopyOrInPlace ==
    \A o \in OfFreezable :
        LET r == freeze(heap, lists, o, FALSE)
            s == freeze(heap, lists, o, TRUE)
        IN /\ r.exc = "" /\ r.ret # o /\ r.h[r.ret].frozen
           /\ r.h[o] = heap[o]
           /\ \A n \in MethodsOf(o) : CallMethod(r.h, o, n) = CallMethod(heap, o, n)
           /\ \A n \in PropertiesOf(o) : ReadProperty(r.h, o, n) = ReadProperty(heap, o, n)
           /\ s.exc = "" /\ s.ret = o /\ s.h[o].frozen

\* C10 as stated: freeze of a str, int, float, bool, list or set raises
\* TypeError with in_place=True, and with in_place=False returns, without
\* raising, a tuple for a list, a frozenset for a set, and the value itself for
\* the others.
C10_Builtins ==
    \A v \in {o \in Ids(heap) : heap[o].kind = "value"
                                  /\ heap[o].pytype \in DOMAIN _frozen_builtins_mapping} :
        LET r == freeze(heap, lists, v, FALSE) IN
        /\ IsA(freeze(heap, lists, v, TRUE).exc, "TypeError")
        /\ r.exc = ""
        /\ r.h[r.ret].pytype = _frozen_builtins_mapping[heap[v].pytype]
        /\ heap[v].pytype \notin {"list", "set"} => r.ret = v

\* C11 as stated: once an annotation a was applied to an object foo, a(foo)
\* having returned foo itself, foo.__decorators__ is [a], so has_decorator(foo, a)
\* is true.
C11_Traceable ==
    \A o \in Ids(heap) : \A a \in applied[o] \cap Annotations :
        /\ has_decorator(heap, lists, o, a)
        /\ applied[o] = {a} => DecoratorsSeq(heap, lists, o) = <<a>>

\* The json and csv interfaces are both installed, and every interface finder
\* of sys.meta_path has its default domain.
DefaultsInstalled ==
    /\ \A e \in {"json", "csv"} : \E k \in 1..Len(meta_path) :
            IsInterfaceFinder(meta_path[k]) /\ meta_path[k].extension = e
    /\ \A k \in 1..Len(meta_path) :
            IsInterfaceFinder(meta_path[k]) => meta_path[k].pure_domain = <<>>

\* fullname is under 'interface.<e>.'
Under(fullname, e) ==
    Len(fullname) >= 5 /\ SubSeq(fullname, 1, 4) = <<"interface", ".", e, ".">>

\* fullname is a proper dotted ancestor of the domain 'interface.<e>.'
AncestorOf(fullname, e) == fullname \in {<<"interface">>, <<"interface", ".", e>>}

\* The file or directory a name under 'interface.<e>.' stands for is there
TargetExists(fullname, e, path, fs) ==
    \E k \in 1..Len(path) :
        With(Join(path[k], DotsToSlashes(SubSeq(fullname, 5, Len(fullname)))), LAMBDA t :
            t \in fs.dirs \/ t \o <<".", e>> \in fs.files)

\* What the import system gets from the interface finders of mp, asked in turn
RECURSIVE Route(_, _, _, _)
Route(mp, fullname, path, fs) ==
    IF mp = <<>> THEN NoSpec
    ELSE IF ~IsInterfaceFinder(Head(mp)) THEN Route(Tail(mp), fullname, path, fs)
    ELSE With(find_spec(Head(mp), fullname, path, fs), LAMBDA r :
            IF r # NoSpec THEN r ELSE Route(Tail(mp), fullname, path, fs))

Reverse(seq) == [k \in 1..Len(seq) |-> seq[Len(seq) + 1 - k]]

\* C12: with the json and csv interfaces installed with their default domains,
\* a name under 'interface.<ext>.' gets None from the finders of the other
\* extension and an answer from the finders of <ext> (a spec when its target is
\* there, NameError when it is not); a proper ancestor of a domain gets a
\* package spec with a dummy loader; any other name gets None from every
\* interface finder; and the answer does not depend on the order of the finders.
C12_Routing ==
    DefaultsInstalled =>
        \A fullname \in Names, path \in Paths, fs \in FileSystems :
            /\ \A k \in 1..Len(meta_path) : IsInterfaceFinder(meta_path[k]) =>
                  With(find_spec(meta_path[k], fullname, path, fs), LAMBDA r :
                    /\ \A e \in {"json", "csv"} : Under(fullname, e) =>
                          IF meta_path[k].extension # e THEN r = NoSpec
                          ELSE /\ r # NoSpec
                               /\ r.kind = "ModuleSpec" <=>
                                    TargetExists(fullname, e,
                                        IF path = <<>> THEN DefaultPath ELSE path, fs)
                               /\ r.kind = "ModuleSpec" /\ ~r.is_package =>
                                    r.loader[1] = meta_path[k].loader[1]
                    /\ \A e \in {"json", "csv"} : AncestorOf(fullname, e) =>
                          IF meta_path[k].extension = e
                          THEN r = ModuleSpec(fullname, DummyImportLoader, TRUE)
                          ELSE r \in {NoSpec, ModuleSpec(fullname, DummyImportLoader, TRUE)}
                    /\ (\A e \in {"json", "csv"} :
                            ~Under(fullname, e) /\ ~AncestorOf(fullname, e)) => r = NoSpec)
            /\ Route(meta_path, fullname, path, fs)
                 = Route(Reverse(meta_path), fullname, path, fs)
            /\ (\E e \in {"json", "csv"} : AncestorOf(fullname, e)) =>
                  Route(meta_path, fullname, path, fs)
                    = ModuleSpec(fullname, DummyImportLoader, TRUE)

\* Both interfaces are installed, the json finder ahead of the csv one, and
\* 'interface.json.file' is routed to the json loader, 'interface.csv.data' to
\* the csv loader.
C12_Witness ==
    /\ DefaultsInstalled
    /\ \E j, k \in 1..Len(meta_path) :
          /\ j < k
          /\ meta_path[j].extension = "json"
          /\ meta_path[k].extension = "csv"
    /\ \E fs \in FileSystems :
          /\ With(Route(meta_path, <<"interface", ".", "json", ".", "file">>, <<>>, fs),
                  LAMBDA r : r.kind = "ModuleSpec" /\ r.loader[1] = "JsonInterface")
          /\ With(Route(meta_path, <<"interface", ".", "csv", ".", "data">>, <<>>, fs),
                  LAMBDA r : r.kind = "ModuleSpec" /\ r.loader[1] = "CsvInterface")

\* The finders of mp that come from the class named cls
FindersFrom(mp, cls) ==
    {k \in 1..Len(mp) : IsInterfaceFinder(mp[k]) /\ mp[k].loader[1] = cls.name}

\* C13: install_all() puts one new finder for JsonInterface and one for
\* CsvInterface at the head of sys.meta_path and keeps the finders that were
\* there, in their order, behind them; install(ext) does so for the interfaces
\* whose __extension__ is ext only, and changes and raises nothing when there is
\* none; ExtraInterface.install on a class whose __extension__ is None raises
\* ValueError and leaves sys.meta_path as it was.
C13_Install ==
    /\ With(install_all(meta_path), LAMBDA r :
          /\ r.exc = ""
          /\ Len(r.mp) = Len(meta_path) + 2
          /\ SubSeq(r.mp, 3, Len(r.mp)) = meta_path
          /\ \A c \in {JsonInterface, CsvInterface} :
                /\ Cardinality(FindersFrom(r.mp, c) \cap {1, 2}) = 1
                /\ \A k \in FindersFrom(r.mp, c) \cap {1, 2} :
                      r.mp[k].extension = c.__extension__)
    /\ \A e \in Extensions :
          With(InstallerInstall(meta_path, e), LAMBDA r :
            With(Len(r.mp) - Len(meta_path), LAMBDA n :
              /\ r.exc = ""
              /\ n = Cardinality({c \in {JsonInterface, CsvInterface} : c.__extension__ = e})
              /\ SubSeq(r.mp, n + 1, Len(r.mp)) = meta_path
              /\ \A k \in 1..n :
                    IsInterfaceFinder(r.mp[k]) /\ r.mp[k].extension = e
              /\ e \notin {"json", "csv"} => r.mp = meta_path))
    /\ \A d \in {<<>>, <<"data">>}, f \in {"", "content"} :
          With(install(meta_path, ExtraInterface, f, d), LAMBDA r :
            r.exc = "ValueError" /\ r.mp = meta_path)

\* install_all() ran twice: the four finders it added stand ahead of the
\* standard ones, the csv finder of each call ahead of its json finder.
C13_Witness ==
    /\ Len(meta_path) = Len(StandardFinders) + 4
    /\ SubSeq(meta_path, 5, Len(meta_path)) = StandardFinders
    /\ meta_path[1] = meta_path[3]
    /\ meta_path[2] = meta_path[4]
    /\ meta_path[1].extension = "csv"
    /\ meta_path[2].extension = "json"

\* C14 as stated: every str, int, float or bool field value that create_field
\* stored in the dumper's fields is decoded by _cast_data into a value equal to
\* it.
C14_RoundTrip ==
    \A field \in DOMAIN parent_dict :
        LStrip(field) \in DOMAIN fields =>
            PyEq(_cast_data(fields[LStrip(field)]), parent_dict[field])

====
